---- MODULE Spec2Model ----
(***************************************************************************)
(* Model of projeto_clima: the weather lookup pipeline                     *)
(* (getCityCoordinates, getWeatherData, get5DayForecast), the pure         *)
(* translators (getWeatherDescription, getWeatherIcon,                     *)
(* formatDateTimeLocal) and the form's submit handler with the DOM state   *)
(* it reads and writes.                                                    *)
(*                                                                         *)
(* JavaScript values are modelled as follows.                              *)
(*   - strings are TLA+ strings; Len, SubSeq and \o work on them, so       *)
(*     trim, split, toLowerCase and includes are computed character by     *)
(*     character;                                                          *)
(*   - a property that may be missing from an upstream JSON object is an   *)
(*     optional value: <<>> when it is undefined, <<v>> when it is v;      *)
(*   - temperatures are integers in tenths of a degree (254 is 25.4),      *)
(*     coordinates are integers in hundredths of a degree;                 *)
(*   - a settled promise or a finished function is an outcome record       *)
(*     [kind |-> "return", value |-> ..] or                                *)
(*     [kind |-> "throw", error |-> [message |-> <optional string>]].      *)
(***************************************************************************)
EXTENDS Integers, Sequences, FiniteSets, TLC

\* ------------------------------------------------------------------
\* Bounds of the model
\* ------------------------------------------------------------------

\* fetch() is called at most this many times in one behaviour
MaxFetches == 6

\* ------------------------------------------------------------------
\* Optional values (a JSON property that may be undefined)
\* ------------------------------------------------------------------

Undefined == <<>>

Some(v) == <<v>>

IsDefined(o) == Len(o) > 0

ValueOf(o) == o[1]

\* ------------------------------------------------------------------
\* JavaScript string primitives
\* ------------------------------------------------------------------
\* A JavaScript string is a TLA+ string.  A character outside ASCII is
\* written by its HTML entity name ("n&atilde;o" is 'não', "&deg;" is '°'):
\* TLC stores the characters of a string in one byte each.  The names of an
\* upper-case and a lower-case accented letter differ in the case of their
\* first letter (&Eacute; and &eacute;), so toLowerCase letter by letter is
\* toLowerCase of the text; no text of the program starts with such a
\* character, has one next to a separator it is split at, or has a name
\* in a search pattern.

CharAt(s, i) == SubSeq(s, i, i)

UpperChars == "ABCDEFGHIJKLMNOPQRSTUVWXYZ"

LowerChars == "abcdefghijklmnopqrstuvwxyz"

\* the lower-case form of each upper-case character
LowerCaseMap ==
    [c \in {CharAt(UpperChars, i) : i \in 1..Len(UpperChars)} |->
        CharAt(LowerChars, CHOOSE i \in 1..Len(UpperChars) : CharAt(UpperChars, i) = c)]

\* the upper-case form of each lower-case character
UpperCaseMap ==
    [c \in {CharAt(LowerChars, i) : i \in 1..Len(LowerChars)} |->
        CharAt(UpperChars, CHOOSE i \in 1..Len(LowerChars) : CharAt(LowerChars, i) = c)]

\* one character of String.prototype.toLowerCase
LowerChar(c) == IF c \in DOMAIN LowerCaseMap THEN LowerCaseMap[c] ELSE c

RECURSIVE ToLowerCase(_)
ToLowerCase(s) ==
    IF Len(s) = 0 THEN ""
    ELSE LowerChar(CharAt(s, 1)) \o ToLowerCase(Tail(s))

\* String.prototype.includes
Includes(s, sub) ==
    \E i \in 1..(Len(s) - Len(sub) + 1) : SubSeq(s, i, i + Len(sub) - 1) = sub

WhiteSpace == {" ", "\t", "\n"}

RECURSIVE TrimStart(_)
TrimStart(s) ==
    IF Len(s) > 0 /\ CharAt(s, 1) \in WhiteSpace THEN TrimStart(Tail(s)) ELSE s

RECURSIVE TrimEnd(_)
TrimEnd(s) ==
    IF Len(s) > 0 /\ CharAt(s, Len(s)) \in WhiteSpace
    THEN TrimEnd(SubSeq(s, 1, Len(s) - 1))
    ELSE s

\* trim with a slip: the string is returned as it is
Trim_Nothing(s) == s

\* String.prototype.trim
Trim(s) == TrimEnd(TrimStart(s))

\* String.prototype.split with a one-character separator: the sequence of
\* the pieces between separators (a string with no separator gives <<s>>)
RECURSIVE SplitFrom(_, _, _)
SplitFrom(s, sep, acc) ==
    IF Len(s) = 0 THEN <<acc>>
    ELSE IF CharAt(s, 1) = sep
         THEN <<acc>> \o SplitFrom(Tail(s), sep, "")
         ELSE SplitFrom(Tail(s), sep, acc \o CharAt(s, 1))

Split(s, sep) == SplitFrom(s, sep, "")

\* arr[i] of a JavaScript array of strings, 0-based, inside a template
\* literal: a missing element prints as "undefined"
ElemText(arr, i) == IF i + 1 <= Len(arr) THEN arr[i + 1] ELSE "undefined"

\* ------------------------------------------------------------------
\* Numbers and dates
\* ------------------------------------------------------------------

Digits == "0123456789"

DigitMap ==
    [c \in {CharAt(Digits, i) : i \in 1..Len(Digits)} |->
        (CHOOSE i \in 1..Len(Digits) : CharAt(Digits, i) = c) - 1]

IsDigit(c) == c \in DOMAIN DigitMap

DigitVal(c) == DigitMap[c]

AllDigits(s) == \A i \in 1..Len(s) : IsDigit(CharAt(s, i))

\* Number(s) for a string of decimal digits
RECURSIVE DigitsToNumber(_)
DigitsToNumber(s) ==
    IF Len(s) = 0 THEN 0
    ELSE 10 * DigitsToNumber(SubSeq(s, 1, Len(s) - 1)) + DigitVal(CharAt(s, Len(s)))

\* two-digit field of a formatted date
Pad2(n) == IF n < 10 THEN "0" \o ToString(n) ELSE ToString(n)

\* MathRound with a slip: Math.floor
MathRound_Floor(tenths) == tenths \div 10

\* Math.round of a number given in tenths: the nearest integer, a half
\* rounds towards +Infinity
MathRound(tenths) == (tenths + 5) \div 10

IsLeapYear(y) == (y % 4 = 0 /\ y % 100 # 0) \/ y % 400 = 0

DaysInMonth(y, m) ==
    IF m = 2 THEN (IF IsLeapYear(y) THEN 29 ELSE 28)
    ELSE IF m \in {4, 6, 9, 11} THEN 30 ELSE 31

\* the calendar day before [year, month, day]
PrevDay(d) ==
    IF d.day > 1 THEN [d EXCEPT !.day = d.day - 1]
    ELSE IF d.month > 1
         THEN [d EXCEPT !.month = d.month - 1,
                        !.day = DaysInMonth(d.year, d.month - 1)]
         ELSE [d EXCEPT !.year = d.year - 1, !.month = 12, !.day = 31]

\* Date.prototype.toLocaleString('pt-BR') of a valid local date-time; sep is
\* the separator the engine's locale data puts between date and time
ToLocaleStringPtBR(d, sep) ==
    Pad2(d.day) \o "/" \o Pad2(d.month) \o "/" \o ToString(d.year) \o sep
      \o Pad2(d.hour) \o ":" \o Pad2(d.minute) \o ":" \o Pad2(d.second)

\* the date-only ISO form YYYY-MM-DD naming a real calendar day
IsIsoDateOnly(s) ==
    /\ Len(s) = 10
    /\ CharAt(s, 5) = "-" /\ CharAt(s, 8) = "-"
    /\ AllDigits(SubSeq(s, 1, 4)) /\ AllDigits(SubSeq(s, 6, 7))
    /\ AllDigits(SubSeq(s, 9, 10))
    /\ DigitsToNumber(SubSeq(s, 6, 7)) \in 1..12
    /\ DigitsToNumber(SubSeq(s, 9, 10)) \in
         1..DaysInMonth(DigitsToNumber(SubSeq(s, 1, 4)), DigitsToNumber(SubSeq(s, 6, 7)))

\* new Date(s) for a string without the 'T' separator, as a local date-time
\* in a process whose zone is tz hours from UTC: a date-only ISO string is
\* UTC midnight of that day, any other string here is an Invalid Date
\* (Undefined)
DateParse(s, tz) ==
    IF IsIsoDateOnly(s)
    THEN LET utc == [year |-> DigitsToNumber(SubSeq(s, 1, 4)),
                     month |-> DigitsToNumber(SubSeq(s, 6, 7)),
                     day |-> DigitsToNumber(SubSeq(s, 9, 10)),
                     hour |-> 0, minute |-> 0, second |-> 0]
         IN  IF tz >= 0 THEN Some([utc EXCEPT !.hour = tz])
             ELSE Some([PrevDay(utc) EXCEPT !.hour = 24 + tz])
    ELSE Undefined

\* ------------------------------------------------------------------
\* The pure translators
\* ------------------------------------------------------------------

DescriptionMap ==
    (0 :> "C&eacute;u limpo") @@ (1 :> "Predominantemente limpo")
    @@ (2 :> "Parcialmente nublado") @@ (3 :> "Nublado")
    @@ (45 :> "Neblina") @@ (48 :> "Neblina com geada")
    @@ (51 :> "Garoa leve") @@ (53 :> "Garoa moderada") @@ (55 :> "Garoa intensa")
    @@ (61 :> "Chuva leve") @@ (63 :> "Chuva moderada") @@ (65 :> "Chuva forte")
    @@ (71 :> "Neve leve") @@ (73 :> "Neve moderada") @@ (75 :> "Neve forte")
    @@ (77 :> "Granizo")
    @@ (80 :> "Pancadas de chuva leves") @@ (81 :> "Pancadas de chuva moderadas")
    @@ (82 :> "Pancadas de chuva fortes")
    @@ (85 :> "Pancadas de neve leves") @@ (86 :> "Pancadas de neve fortes")
    @@ (95 :> "Tempestade") @@ (96 :> "Tempestade com granizo leve")
    @@ (99 :> "Tempestade com granizo forte")

UnknownDescription == "Condi&ccedil;&atilde;o desconhecida"

\* getWeatherDescription with a slip: the code itself is tested for
\* truthiness, so code 0 takes the fallback
getWeatherDescription_FalsyZero(code) ==
    IF code # 0 /\ code \in DOMAIN DescriptionMap
    THEN DescriptionMap[code]
    ELSE UnknownDescription

\* getWeatherDescription for an integer code: map[code] || fallback
getWeatherDescription(code) ==
    IF code \in DOMAIN DescriptionMap /\ Len(DescriptionMap[code]) > 0
    THEN DescriptionMap[code]
    ELSE UnknownDescription

\* getWeatherIcon with a slip: 77 stands in the list of the snow codes
getWeatherIcon_HailAsSnow(code) ==
    IF code \in {0, 1} THEN "wi-day-sunny"
    ELSE IF code = 2 THEN "wi-day-cloudy"
    ELSE IF code = 3 THEN "wi-cloud"
    ELSE IF code \in {45, 48} THEN "wi-fog"
    ELSE IF code \in {51, 53, 55, 61, 63, 65, 80, 81, 82} THEN "wi-rain"
    ELSE IF code \in {71, 73, 75, 77, 85, 86} THEN "wi-snow"
    ELSE IF code \in {95, 96, 99} THEN "wi-thunderstorm"
    ELSE "wi-na"

\* getWeatherIcon with a slip: the check of code 77 is missing
getWeatherIcon_NoHail(code) ==
    IF code \in {0, 1} THEN "wi-day-sunny"
    ELSE IF code = 2 THEN "wi-day-cloudy"
    ELSE IF code = 3 THEN "wi-cloud"
    ELSE IF code \in {45, 48} THEN "wi-fog"
    ELSE IF code \in {51, 53, 55, 61, 63, 65, 80, 81, 82} THEN "wi-rain"
    ELSE IF code \in {71, 73, 75, 85, 86} THEN "wi-snow"
    ELSE IF code \in {95, 96, 99} THEN "wi-thunderstorm"
    ELSE "wi-na"

\* getWeatherIcon for an integer code: the chain of checks, in order
getWeatherIcon(code) ==
    IF code = 0 THEN "wi-day-sunny"
    ELSE IF code = 1 THEN "wi-day-sunny"
    ELSE IF code = 2 THEN "wi-day-cloudy"
    ELSE IF code = 3 THEN "wi-cloud"
    ELSE IF code = 45 \/ code = 48 THEN "wi-fog"
    ELSE IF code \in {51, 53, 55, 61, 63, 65, 80, 81, 82} THEN "wi-rain"
    ELSE IF code \in {71, 73, 75, 85, 86} THEN "wi-snow"
    ELSE IF code = 77 THEN "wi-hail"
    ELSE IF code \in {95, 96, 99} THEN "wi-thunderstorm"
    ELSE "wi-na"

\* the two translators applied to a property that may be undefined (or
\* null): map[undefined] is undefined and no check of the chain matches
DescriptionOf(code) ==
    IF IsDefined(code) THEN getWeatherDescription(ValueOf(code)) ELSE UnknownDescription

IconOf(code) ==
    IF IsDefined(code) THEN getWeatherIcon(ValueOf(code)) ELSE "wi-na"

\* `${Math.round(t)}°C` for a temperature property that may be undefined
\* (Math.round(undefined) is NaN)
TemperatureText(t) ==
    IF IsDefined(t) THEN ToString(MathRound(ValueOf(t))) \o "&deg;C" ELSE "NaN&deg;C"

\* formatDateTimeLocal with a slip: month and day in the order of the input
formatDateTimeLocal_MonthFirst(isoString, env) ==
    IF ~IsDefined(isoString) \/ Len(ValueOf(isoString)) = 0
    THEN ToLocaleStringPtBR(env.now, env.sep)
    ELSE LET s == ValueOf(isoString)
             parts == Split(s, "T")
         IN  IF Len(parts) >= 2
             THEN LET date == Split(parts[1], "-")
                      time == Split(parts[2], ":")
                      minute == IF Len(time) >= 2 /\ Len(time[2]) > 0
                                THEN time[2] ELSE "00"
                  IN  ElemText(date, 1) \o "/" \o ElemText(date, 2) \o "/"
                        \o ElemText(date, 0) \o " " \o ElemText(time, 0) \o ":" \o minute
             ELSE LET parsed == DateParse(s, env.tz)
                  IN  IF IsDefined(parsed)
                      THEN ToLocaleStringPtBR(ValueOf(parsed), env.sep)
                      ELSE "Invalid Date"

\* formatDateTimeLocal(isoString); env is the process environment the call
\* reads: env.now the current local date-time, env.tz the zone offset in
\* hours, env.sep the locale's date/time separator
formatDateTimeLocal(isoString, env) ==
    IF ~IsDefined(isoString) \/ Len(ValueOf(isoString)) = 0
    THEN ToLocaleStringPtBR(env.now, env.sep)
    ELSE LET s == ValueOf(isoString)
             parts == Split(s, "T")
         IN  IF Len(parts) >= 2
             THEN LET date == Split(parts[1], "-")
                      time == Split(parts[2], ":")
                      day == ElemText(date, 2)
                      month == ElemText(date, 1)
                      year == ElemText(date, 0)
                      hour == ElemText(time, 0)
                      minute == IF Len(time) >= 2 /\ Len(time[2]) > 0
                                THEN time[2] ELSE "00"
                  IN  day \o "/" \o month \o "/" \o year \o " " \o hour \o ":" \o minute
             ELSE LET parsed == DateParse(s, env.tz)
                  IN  IF IsDefined(parsed)
                      THEN ToLocaleStringPtBR(ValueOf(parsed), env.sep)
                      ELSE "Invalid Date"

\* the calendar day after [year, month, day]
NextDay(d) ==
    IF d.day < DaysInMonth(d.year, d.month) THEN [d EXCEPT !.day = d.day + 1]
    ELSE IF d.month < 12 THEN [d EXCEPT !.month = d.month + 1, !.day = 1]
         ELSE [d EXCEPT !.year = d.year + 1, !.month = 1, !.day = 1]

RECURSIVE AddDays(_, _)
AddDays(d, n) == IF n = 0 THEN d ELSE AddDays(NextDay(d), n - 1)

\* the UTC date-time of a local date-time in a zone tz hours from UTC
ToUTC(d, tz) ==
    LET h == d.hour - tz
    IN  IF h < 0 THEN [PrevDay(d) EXCEPT !.hour = h + 24]
        ELSE IF h > 23 THEN [NextDay(d) EXCEPT !.hour = h - 24]
        ELSE [d EXCEPT !.hour = h]

\* Date.prototype.toISOString().slice(0, 10): the UTC calendar date
IsoDateUTC(d, tz) ==
    LET u == ToUTC(d, tz)
    IN  ToString(u.year) \o "-" \o Pad2(u.month) \o "-" \o Pad2(u.day)

\* Date.prototype.getDay() of a calendar day: 0 is Sunday
DayOfWeek(y, m, d) ==
    LET t == <<0, 3, 2, 5, 0, 3, 5, 1, 4, 6, 2, 4>>
        yy == IF m < 3 THEN y - 1 ELSE y
    IN  (yy + yy \div 4 - yy \div 100 + yy \div 400 + t[m] + d) % 7

\* a coordinate (hundredths of a degree) as JavaScript prints the number
CoordText(c) ==
    LET a == IF c < 0 THEN 0 - c ELSE c
        frac == IF a % 100 = 0 THEN ""
                ELSE IF a % 10 = 0 THEN "." \o ToString((a % 100) \div 10)
                ELSE "." \o Pad2(a % 100)
    IN  (IF c < 0 THEN "-" ELSE "") \o ToString(a \div 100) \o frac

\* ------------------------------------------------------------------
\* Errors, fetch results and completions
\* ------------------------------------------------------------------

API_BASE_URL == "https://geocoding-api.open-meteo.com/v1/search"

WEATHER_API_URL == "https://api.open-meteo.com/v1/forecast"

MsgNameRequired == "Nome da cidade &eacute; obrigat&oacute;rio"

MsgGeoUpstream == "Erro ao buscar coordenadas da cidade"

MsgNotFound == "Cidade n&atilde;o encontrada"

MsgWeatherUpstream == "Erro ao buscar dados do clima"

MsgForecastUpstream == "Erro ao buscar previs&atilde;o de 5 dias"

\* MsgWeatherUnavailable with a slip: a wording that mentions the city
MsgWeatherUnavailable_MentionsCity == "Dados de clima da cidade indispon&iacute;veis"

MsgWeatherUnavailable == "Dados de clima indispon&iacute;veis"

MsgCityNotFoundUser == "Cidade n&atilde;o encontrada. Tente novamente."

MsgFallback == "Erro ao buscar dados do clima. Tente novamente."

\* new Error(msg), as a thrown value
NewError(msg) == Some([name |-> "Error", message |-> Some(msg)])

\* what a function invocation ended with; value is Undefined for null
Return(v, bodyRead) ==
    [kind |-> "return", value |-> v, error |-> Undefined, bodyRead |-> bodyRead]

Throw(e, bodyRead) ==
    [kind |-> "throw", value |-> Undefined, error |-> e, bodyRead |-> bodyRead]

\* Ok with a slip: only the 5xx statuses count as failures
Ok_ServerErrorsOnly(res) == res.status < 500

\* Response.ok
Ok(res) == res.status \in 200..299

\* ------------------------------------------------------------------
\* The pipeline functions, split at their one await of fetch()
\* ------------------------------------------------------------------

\* NameIsMissing with a slip: the name is not trimmed before the test
NameIsMissing_NoTrim(cityName) ==
    \/ ~IsDefined(cityName)
    \/ Len(ValueOf(cityName)) = 0

\* getCityCoordinates up to the fetch: the validation of the name
NameIsMissing(cityName) ==
    \/ ~IsDefined(cityName)
    \/ Len(ValueOf(cityName)) = 0
    \/ Len(Trim(ValueOf(cityName))) = 0

\* the geocoding request (name is the value encodeURIComponent carries)
GeoRequest(cityName) ==
    [url |-> API_BASE_URL,
     query |-> << <<"name", ValueOf(cityName)>>, <<"count", "1">>,
                  <<"language", "pt">>, <<"format", "json">> >>]

\* getCityCoordinates up to its await: it throws at once, or calls fetch
getCityCoordinatesStart(cityName) ==
    IF NameIsMissing(cityName)
    THEN [fetch |-> Undefined, done |-> Some(Throw(NewError(MsgNameRequired), FALSE))]
    ELSE [fetch |-> Some(GeoRequest(cityName)), done |-> Undefined]

\* getCityCoordinatesResume with a slip: only a missing results key counts
\* as no match, so an empty array gives a location with no fields (null here)
getCityCoordinatesResume_NoLengthCheck(res) ==
    IF res.rejected THEN Throw(res.reason, FALSE)
    ELSE IF ~Ok(res) THEN Throw(NewError(MsgGeoUpstream), FALSE)
    ELSE LET data == ValueOf(res.body)
         IN  IF ~IsDefined(data.results)
             THEN Throw(NewError(MsgNotFound), TRUE)
             ELSE IF Len(ValueOf(data.results)) = 0
             THEN Return(Undefined, TRUE)
             ELSE LET r == ValueOf(data.results)[1]
                  IN  Return(Some([lat |-> r.latitude, lon |-> r.longitude,
                                   name |-> r.name, country |-> r.country]), TRUE)

\* getCityCoordinates from the settled fetch on
getCityCoordinatesResume(res) ==
    IF res.rejected THEN Throw(res.reason, FALSE)
    ELSE IF ~Ok(res) THEN Throw(NewError(MsgGeoUpstream), FALSE)
    ELSE LET data == ValueOf(res.body)
         IN  IF ~IsDefined(data.results) \/ Len(ValueOf(data.results)) = 0
             THEN Throw(NewError(MsgNotFound), TRUE)
             ELSE LET r == ValueOf(data.results)[1]
                  IN  Return(Some([lat |-> r.latitude, lon |-> r.longitude,
                                   name |-> r.name, country |-> r.country]), TRUE)

\* WeatherRequest with a slip: the coordinates are exchanged
WeatherRequest_SwapsCoordinates(lat, lon) ==
    [url |-> WEATHER_API_URL,
     query |-> << <<"latitude", CoordText(lon)>>, <<"longitude", CoordText(lat)>>,
                  <<"current_weather", "true">>, <<"timezone", "auto">> >>]

WeatherRequest(lat, lon) ==
    [url |-> WEATHER_API_URL,
     query |-> << <<"latitude", CoordText(lat)>>, <<"longitude", CoordText(lon)>>,
                  <<"current_weather", "true">>, <<"timezone", "auto">> >>]

\* getWeatherDataResume with a slip: a missing current_weather is an error
getWeatherDataResume_ThrowsOnMissing(res) ==
    IF res.rejected THEN Throw(res.reason, FALSE)
    ELSE IF ~Ok(res) THEN Throw(NewError(MsgWeatherUpstream), FALSE)
    ELSE IF IsDefined(ValueOf(res.body).current_weather)
         THEN Return(ValueOf(res.body).current_weather, TRUE)
         ELSE Throw(NewError(MsgWeatherUnavailable), TRUE)

\* getWeatherData from the settled fetch on
getWeatherDataResume(res) ==
    IF res.rejected THEN Throw(res.reason, FALSE)
    ELSE IF ~Ok(res) THEN Throw(NewError(MsgWeatherUpstream), FALSE)
    ELSE Return(ValueOf(res.body).current_weather, TRUE)

\* the 5-day window and the request of get5DayForecast
ForecastRequest(lat, lon, env) ==
    LET startDate == IsoDateUTC(env.now, env.tz)
        end == AddDays(env.now, 4)
        endDate == IsoDateUTC(end, env.tz)
    IN  [url |-> WEATHER_API_URL,
         query |-> << <<"latitude", CoordText(lat)>>, <<"longitude", CoordText(lon)>>,
                      <<"daily", "temperature_2m_max,temperature_2m_min,weathercode">>,
                      <<"timezone", "auto">>,
                      <<"start_date", startDate>>, <<"end_date", endDate>> >>]

\* get5DayForecastResume with a slip: the fetch is wrapped in a try whose
\* catch replaces the transport's error by the function's own
get5DayForecastResume_WrapsRejection(res) ==
    IF res.rejected THEN Throw(NewError(MsgForecastUpstream), FALSE)
    ELSE IF ~Ok(res) THEN Throw(NewError(MsgForecastUpstream), FALSE)
    ELSE Return(ValueOf(res.body).daily, TRUE)

\* get5DayForecast from the settled fetch on
get5DayForecastResume(res) ==
    IF res.rejected THEN Throw(res.reason, FALSE)
    ELSE IF ~Ok(res) THEN Throw(NewError(MsgForecastUpstream), FALSE)
    ELSE Return(ValueOf(res.body).daily, TRUE)

\* ------------------------------------------------------------------
\* The submit handler's rendering and error routing
\* ------------------------------------------------------------------

\* ErrorMessageFor with a slip: the message is not lower-cased before the
\* search for 'cidade'
ErrorMessageFor_CaseSensitive(err) ==
    IF /\ IsDefined(err)
       /\ IsDefined(ValueOf(err).message)
       /\ Len(ValueOf(ValueOf(err).message)) > 0
       /\ ~Includes(ValueOf(ValueOf(err).message), "cidade")
    THEN ValueOf(ValueOf(err).message)
    ELSE MsgCityNotFoundUser

\* the message the handler's catch block displays for the thrown value err
ErrorMessageFor(err) ==
    IF /\ IsDefined(err)
       /\ IsDefined(ValueOf(err).message)
       /\ Len(ValueOf(ValueOf(err).message)) > 0
       /\ ~Includes(ToLowerCase(ValueOf(ValueOf(err).message)), "cidade")
    THEN (IF Len(ValueOf(ValueOf(err).message)) > 0
          THEN ValueOf(ValueOf(err).message)
          ELSE MsgFallback)
    ELSE MsgCityNotFoundUser

\* the current-weather fields the handler writes for cityData and weather
CurrentFields(cityData, weather, env) ==
    [cityName |-> cityData.name \o ", " \o cityData.country,
     temperature |-> TemperatureText(weather.temperature),
     description |-> Some(DescriptionOf(weather.weathercode)),
     datetime |-> Some(formatDateTimeLocal(weather.time, env)),
     weatherIcon |-> Some("wi weather-icon " \o IconOf(weather.weathercode))]

Weekdays ==
    <<"domingo", "segunda-feira", "ter&ccedil;a-feira", "quarta-feira",
      "quinta-feira", "sexta-feira", "s&aacute;bado">>

\* p.charAt(0).toLocaleUpperCase('pt-BR') + p.slice(1), '' for an empty part
Capitalize(p) ==
    IF Len(p) = 0 THEN ""
    ELSE LET c == CharAt(p, 1)
         IN  (IF c \in DOMAIN UpperCaseMap THEN UpperCaseMap[c] ELSE c) \o Tail(p)

RECURSIVE JoinCapitalized(_)
JoinCapitalized(ps) ==
    IF Len(ps) = 0 THEN ""
    ELSE IF Len(ps) = 1 THEN Capitalize(ps[1])
    ELSE Capitalize(ps[1]) \o " " \o JoinCapitalized(Tail(ps))

\* the weekday name with its parts capitalised and joined by a space
WeekdayPascal(weekday) == JoinCapitalized(Split(weekday, "-"))

\* arr[i] of an array of numbers, 1-based here; Undefined past its end
NumberAt(arr, i) == IF i <= Len(arr) THEN Some(arr[i]) ELSE Undefined

\* the year, month and day pieces of daily.time[i] are all numeric, so
\* that new Date(..).getDay() is a number
DateIsNumeric(isoDate) ==
    LET ps == Split(isoDate, "-")
    IN  Len(ps) >= 3 /\ AllDigits(ps[1]) /\ AllDigits(ps[2]) /\ AllDigits(ps[3])

\* iteration i of the forecast loop throws a TypeError: weekdays[NaN] is
\* undefined, or one of the temperature arrays is
ForecastItemThrows(daily, i) ==
    \/ ~DateIsNumeric(ValueOf(daily.time)[i])
    \/ ~IsDefined(daily.temperature_2m_min)
    \/ ~IsDefined(daily.temperature_2m_max)

\* the <li> built for day i
ForecastItem(daily, i) ==
    LET ps == Split(ValueOf(daily.time)[i], "-")
        code == IF IsDefined(daily.weathercode)
                THEN NumberAt(ValueOf(daily.weathercode), i)
                ELSE Undefined
    IN  [weekday |-> WeekdayPascal(Weekdays[DayOfWeek(DigitsToNumber(ps[1]),
                                                      DigitsToNumber(ps[2]),
                                                      DigitsToNumber(ps[3])) + 1]),
         date |-> ps[3] \o "/" \o ps[2] \o "/" \o ps[1],
         icon |-> "wi forecast-icon " \o IconOf(code),
         desc |-> DescriptionOf(code),
         max |-> TemperatureText(NumberAt(ValueOf(daily.temperature_2m_max), i)),
         min |-> TemperatureText(NumberAt(ValueOf(daily.temperature_2m_min), i))]

\* the #forecast5 element just created, or cleared by innerHTML = ''
EmptyForecast == [title |-> FALSE, list |-> Undefined]

\* the body of the forecast try block after get5DayForecast has returned
\* daily: the content #forecast5 is left with, and whether the block threw
RenderForecast(daily) ==
    IF /\ IsDefined(daily)
       /\ IsDefined(ValueOf(daily).time)
       /\ Len(ValueOf(ValueOf(daily).time)) > 0
    THEN LET d == ValueOf(daily)
             n == Len(ValueOf(d.time))
         IN  IF \E i \in 1..n : ForecastItemThrows(d, i)
             THEN [forecast5 |-> Some([title |-> TRUE, list |-> Undefined]),
                   threw |-> TRUE]
             ELSE [forecast5 |->
                     Some([title |-> TRUE,
                           list |-> Some([i \in 1..n |-> ForecastItem(d, i)])]),
                   threw |-> FALSE]
    ELSE [forecast5 |-> Some(EmptyForecast), threw |-> FALSE]

\* ------------------------------------------------------------------
\* Inputs: what the user types, what the network answers, the process
\* environment
\* ------------------------------------------------------------------

CityInputs == {"", "   ", "S&atilde;o Paulo", " Lisboa "}

SaoPaulo ==
    [latitude |-> -2355, longitude |-> -4663, name |-> "S&atilde;o Paulo", country |-> "Brazil"]

Lisboa ==
    [latitude |-> 3872, longitude |-> -914, name |-> "Lisboa", country |-> "Portugal"]

GeoBodies ==
    {[results |-> Undefined], [results |-> Some(<<>>)],
     [results |-> Some(<<SaoPaulo>>)], [results |-> Some(<<Lisboa, SaoPaulo>>)]}

Observations ==
    {[temperature |-> Some(254), weathercode |-> Some(63),
      time |-> Some("2025-11-10T15:00")],
     [temperature |-> Some(-25), weathercode |-> Some(0),
      time |-> Some("2025-11-10T14:30:45")],
     [temperature |-> Undefined, weathercode |-> Some(4), time |-> Undefined],
     [temperature |-> Some(180), weathercode |-> Undefined,
      time |-> Some("2025-11-10")]}

WeatherBodies ==
    {[current_weather |-> Undefined]}
      \cup {[current_weather |-> Some(o)] : o \in Observations}

Dailies ==
    {[time |-> Some(<<"2025-11-10", "2025-11-11", "2025-11-12",
                      "2025-11-13", "2025-11-14">>),
      temperature_2m_max |-> Some(<<268, 271, 245, 199, 230>>),
      temperature_2m_min |-> Some(<<181, 176, 150, 95, 122>>),
      weathercode |-> Some(<<63, 3, 0, 95, 2>>)],
     [time |-> Some(<<"2026-02-28", "2026-03-01">>),
      temperature_2m_max |-> Some(<<-15>>),
      temperature_2m_min |-> Some(<<-74, -80>>),
      weathercode |-> Undefined],
     [time |-> Some(<<"2025-11-10">>),
      temperature_2m_max |-> Undefined,
      temperature_2m_min |-> Undefined,
      weathercode |-> Some(<<63>>)],
     [time |-> Some(<<>>),
      temperature_2m_max |-> Some(<<>>),
      temperature_2m_min |-> Some(<<>>),
      weathercode |-> Some(<<>>)],
     [time |-> Undefined,
      temperature_2m_max |-> Undefined,
      temperature_2m_min |-> Undefined,
      weathercode |-> Undefined]}

ForecastBodies ==
    {[daily |-> Undefined]} \cup {[daily |-> Some(d)] : d \in Dailies}

\* the values a rejected fetch() is rejected with
Rejections ==
    {Some([name |-> "TypeError", message |-> Some("Network request failed")]),
     Some([name |-> "Error", message |-> Some("timeout")]),
     Some([name |-> "Error", message |-> Some("Servidor da CIDADE fora do ar")]),
     Some([name |-> "Error", message |-> Undefined]),
     Undefined}

Statuses == {200, 429, 500}

\* the ways a fetch() whose response body is one of bodies can settle
FetchResults(bodies) ==
    {[rejected |-> TRUE, reason |-> r, status |-> 0, body |-> Undefined] :
        r \in Rejections}
      \cup {[rejected |-> FALSE, reason |-> Undefined, status |-> st, body |-> Some(b)] :
              st \in Statuses, b \in bodies}

\* process environments: the local clock, the zone offset in hours, the
\* date/time separator of the engine's pt-BR locale data
Envs ==
    {[now |-> [year |-> 2025, month |-> 11, day |-> 10,
               hour |-> 15, minute |-> 45, second |-> 0],
      tz |-> -3, sep |-> ", "],
     [now |-> [year |-> 2025, month |-> 11, day |-> 10,
               hour |-> 22, minute |-> 30, second |-> 5],
      tz |-> -3, sep |-> " "],
     [now |-> [year |-> 2026, month |-> 2, day |-> 26,
               hour |-> 8, minute |-> 0, second |-> 0],
      tz |-> 9, sep |-> ", "]}

Coordinates == {<<-2355, -4663>>, <<3872, -914>>, <<0, 0>>}

CityNames == {Undefined} \cup {Some(c) : c \in CityInputs}

\* ------------------------------------------------------------------
\* State
\* ------------------------------------------------------------------

VARIABLES
    dom,         \* the document: display, text and value of the elements used
    pc,          \* where the submit handler is: "idle" or the fetch it awaits
    cityData,    \* the handler's cityData, Undefined before it is assigned
    weather,     \* the handler's weather, Undefined before it is assigned
    request,     \* the request of the handler that is in flight, or Undefined
    query,       \* record of the current (or last) query: how each stage
                 \* went, the value its catch block caught, the status of
                 \* the last response, the number of error messages shown,
                 \* the first match and the observation its responses
                 \* carried, the requests it has issued
    fetchCount,  \* number of calls of fetch() so far
    jsonCount,   \* number of calls of res.json() so far
    call,        \* a direct invocation of a pipeline function (as the tests do)
    invocations  \* the activation records of concurrent invocations of the
                 \* pipeline functions, one per slot

vars ==
    <<dom, pc, cityData, weather, request, query, fetchCount, jsonCount, call,
      invocations>>

uiVars == <<dom, pc, cityData, weather, request, query>>

NoQuery ==
    [geo |-> "none", weather |-> "none", forecast |-> "none",
     caught |-> Undefined, status |-> 0, errors |-> 0,
     first |-> Undefined, observation |-> Undefined, issued |-> <<>>]

\* the first match of the geocoding response res, Undefined when it has
\* none (or when res is no success response)
FirstMatch(res) ==
    IF res.rejected \/ res.status \notin 200..299
       \/ ~IsDefined(ValueOf(res.body).results)
       \/ Len(ValueOf(ValueOf(res.body).results)) = 0
    THEN Undefined
    ELSE Some(ValueOf(ValueOf(res.body).results)[1])

\* the observation of the current-weather response res, Undefined when it
\* has none (or when res is no success response)
ObservationOf(res) ==
    IF res.rejected \/ res.status \notin 200..299 THEN Undefined
    ELSE ValueOf(res.body).current_weather

NoCall ==
    [fn |-> "none", state |-> "idle", cityName |-> Undefined, request |-> Undefined,
     res |-> Undefined, outcome |-> Undefined, fetches |-> 0]

\* the slots of concurrent invocations
Slots == {"a", "b"}

NoInvocation ==
    [fn |-> "none", state |-> "idle", args |-> <<>>, request |-> Undefined,
     res |-> Undefined, outcome |-> Undefined]

Init ==
    /\ dom = [searchForm |-> "flex", cityInput |-> "", searchBtnDisabled |-> FALSE,
              loading |-> "none", error |-> "none", errorText |-> "",
              weatherInfo |-> "none", pageTitle |-> "block", noBg |-> FALSE,
              cityName |-> "", temperature |-> "",
              description |-> Undefined, datetime |-> Undefined,
              weatherIcon |-> Undefined, forecast5 |-> Undefined]
    /\ pc = "idle"
    /\ cityData = Undefined
    /\ weather = Undefined
    /\ request = Undefined
    /\ query = NoQuery
    /\ fetchCount = 0
    /\ jsonCount = 0
    /\ call = NoCall
    /\ invocations = [i \in Slots |-> NoInvocation]

\* ------------------------------------------------------------------
\* The user interface
\* ------------------------------------------------------------------

\* showSearchForm with a slip: the weather panel is left displayed
showSearchForm_KeepsPanel(d) ==
    [d EXCEPT !.searchForm = "flex", !.error = "none",
              !.cityInput = "", !.pageTitle = "block", !.noBg = FALSE]

\* showSearchForm, the click handler of the back button
showSearchForm(d) ==
    [d EXCEPT !.searchForm = "flex", !.weatherInfo = "none", !.error = "none",
              !.cityInput = "", !.pageTitle = "block", !.noBg = FALSE]

hideSearchForm(d) == [d EXCEPT !.searchForm = "none"]

\* ClearPrevious with a slip: the search button is left enabled
ClearPrevious_LeavesButtonEnabled(d) ==
    [d EXCEPT !.error = "none", !.weatherInfo = "none", !.loading = "block"]

\* the handler's "Limpar estados anteriores" block
ClearPrevious(d) ==
    [d EXCEPT !.error = "none", !.weatherInfo = "none", !.loading = "block",
              !.searchBtnDisabled = TRUE]

\* the handler's catch block for the thrown value err
CatchBlock(d, err) ==
    [d EXCEPT !.loading = "none", !.errorText = ErrorMessageFor(err),
              !.error = "block"]

\* FinallyBlock with a slip: the button is not enabled again
FinallyBlock_LeavesDisabled(d) == d

\* the handler's finally block
FinallyBlock(d) == [d EXCEPT !.searchBtnDisabled = FALSE]

\* ShowPanel with a slip: the loading indicator is left displayed
ShowPanel_KeepsLoading(d) ==
    hideSearchForm([d EXCEPT !.weatherInfo = "block", !.pageTitle = "none",
                             !.noBg = TRUE])

\* the end of the handler's try block: the panel replaces the form
ShowPanel(d) ==
    hideSearchForm([d EXCEPT !.loading = "none", !.weatherInfo = "block",
                             !.pageTitle = "none", !.noBg = TRUE])

\* WriteCurrent with a slip: the city and country are not written
WriteCurrent_KeepsCity(d, f) ==
    [d EXCEPT !.temperature = f.temperature,
              !.description = f.description, !.datetime = f.datetime,
              !.weatherIcon = f.weatherIcon]

\* the handler writes the current-weather fields
WriteCurrent(d, f) ==
    [d EXCEPT !.cityName = f.cityName, !.temperature = f.temperature,
              !.description = f.description, !.datetime = f.datetime,
              !.weatherIcon = f.weatherIcon]

\* ForecastTry with a slip: no catch, so what get5DayForecast or the
\* rendering throws leaves the block
ForecastTry_NoCatch(d, done) ==
    IF done.kind = "throw"
    THEN [dom |-> d, threw |-> FALSE, escaped |-> TRUE, error |-> done.error]
    ELSE LET rendered == RenderForecast(done.value)
         IN  [dom |-> [d EXCEPT !.forecast5 = rendered.forecast5],
              threw |-> rendered.threw, escaped |-> rendered.threw,
              error |-> IF rendered.threw
                        THEN Some([name |-> "TypeError",
                                   message |-> Some("Cannot read properties of undefined")])
                        ELSE Undefined]

\* the inner try block of the forecast, entered when get5DayForecast has
\* ended with done: the document it leaves, whether rendering threw, and
\* the thrown value that leaves the block (none: its catch only logs)
ForecastTry(d, done) ==
    IF done.kind = "throw"
    THEN [dom |-> d, threw |-> FALSE, escaped |-> FALSE, error |-> Undefined]
    ELSE LET rendered == RenderForecast(done.value)
         IN  [dom |-> [d EXCEPT !.forecast5 = rendered.forecast5],
              threw |-> rendered.threw, escaped |-> FALSE, error |-> Undefined]

\* Fail with a slip: the statements that show the panel stand after the
\* try statement, so they also run when the catch block has run
Fail_ThenShowsPanel(d, err) ==
    /\ dom' = ShowPanel(FinallyBlock(CatchBlock(d, err)))
    /\ pc' = "idle"
    /\ cityData' = Undefined
    /\ weather' = Undefined
    /\ request' = Undefined

\* Fail with a slip: the failed request is issued again instead of the
\* query ending
Fail_Retries(d, err) ==
    /\ dom' = d
    /\ UNCHANGED <<pc, cityData, weather, request>>

\* the query ends in the catch and finally blocks
Fail(d, err) ==
    /\ dom' = FinallyBlock(CatchBlock(d, err))
    /\ pc' = "idle"
    /\ cityData' = Undefined
    /\ weather' = Undefined
    /\ request' = Undefined

\* The back button is clicked. The button is part of the weather panel, so
\* it can be clicked only while the panel is displayed.
Back ==
    /\ dom.weatherInfo = "block"
    /\ dom' = showSearchForm(dom)
    /\ UNCHANGED <<pc, cityData, weather, request, query, fetchCount, jsonCount, call,
                   invocations>>

\* The form is submitted with input typed into the city field. The browser
\* submits the form only while it is displayed and its button is enabled.
Submit(input) ==
    /\ dom.searchForm = "flex"
    /\ ~dom.searchBtnDisabled
    /\ LET cityName == Trim(input)
           typed == [dom EXCEPT !.cityInput = input]
       IN  IF Len(cityName) = 0
           THEN /\ dom' = typed
                /\ UNCHANGED <<pc, cityData, weather, request, query, fetchCount>>
           ELSE LET started == getCityCoordinatesStart(Some(cityName))
                IN  /\ fetchCount + 3 <= MaxFetches
                    /\ IF IsDefined(started.done)
                       THEN /\ Fail(ClearPrevious(typed), ValueOf(started.done).error)
                            /\ query' = [NoQuery EXCEPT
                                            !.geo = "failed", !.errors = 1,
                                            !.caught = ValueOf(started.done).error]
                            /\ UNCHANGED fetchCount
                       ELSE /\ dom' = ClearPrevious(typed)
                            /\ pc' = "geo"
                            /\ request' = started.fetch
                            /\ fetchCount' = fetchCount + 1
                            /\ query' = [NoQuery EXCEPT !.geo = "pending",
                                                        !.issued = <<"geo">>]
                            /\ UNCHANGED <<cityData, weather>>
    /\ UNCHANGED <<jsonCount, call, invocations>>

\* The geocoding fetch of the handler settles with res.
GeoSettled(res) ==
    /\ pc = "geo"
    /\ LET done == getCityCoordinatesResume(res)
       IN  /\ jsonCount' = IF done.bodyRead THEN jsonCount + 1 ELSE jsonCount
           /\ IF done.kind = "throw"
              THEN /\ Fail(dom, done.error)
                   /\ query' = [query EXCEPT !.geo = "failed", !.errors = @ + 1,
                                             !.caught = done.error,
                                             !.status = res.status,
                                             !.first = FirstMatch(res)]
                   /\ UNCHANGED fetchCount
              ELSE /\ cityData' = done.value
                   /\ pc' = "weather"
                   /\ request' = Some(WeatherRequest(ValueOf(done.value).lat,
                                                     ValueOf(done.value).lon))
                   /\ fetchCount' = fetchCount + 1
                   /\ query' = [query EXCEPT !.geo = "ok", !.weather = "pending",
                                             !.status = res.status,
                                             !.first = FirstMatch(res),
                                             !.issued = Append(@, "weather")]
                   /\ UNCHANGED <<dom, weather>>
    /\ UNCHANGED <<call, invocations>>

\* The current-weather fetch of the handler settles with res, in the
\* process environment env.
WeatherSettled(res, env) ==
    /\ pc = "weather"
    /\ LET done == getWeatherDataResume(res)
       IN  /\ jsonCount' = IF done.bodyRead THEN jsonCount + 1 ELSE jsonCount
           /\ IF done.kind = "throw"
              THEN /\ Fail(dom, done.error)
                   /\ query' = [query EXCEPT !.weather = "failed", !.errors = @ + 1,
                                             !.caught = done.error,
                                             !.status = res.status,
                                             !.observation = ObservationOf(res)]
                   /\ UNCHANGED fetchCount
              ELSE IF ~IsDefined(done.value)
              THEN /\ Fail(dom, NewError(MsgWeatherUnavailable))
                   /\ query' = [query EXCEPT !.weather = "absent", !.errors = @ + 1,
                                             !.caught = NewError(MsgWeatherUnavailable),
                                             !.status = res.status,
                                             !.observation = ObservationOf(res)]
                   /\ UNCHANGED fetchCount
              ELSE /\ weather' = done.value
                   /\ dom' = WriteCurrent(dom, CurrentFields(ValueOf(cityData),
                                                             ValueOf(done.value), env))
                   /\ pc' = "forecast"
                   /\ request' = Some(ForecastRequest(ValueOf(cityData).lat,
                                                      ValueOf(cityData).lon, env))
                   /\ fetchCount' = fetchCount + 1
                   /\ query' = [query EXCEPT !.weather = "ok", !.forecast = "pending",
                                             !.status = res.status,
                                             !.observation = ObservationOf(res),
                                             !.issued = Append(@, "forecast")]
                   /\ UNCHANGED cityData
    /\ UNCHANGED <<call, invocations>>

\* The forecast fetch of the handler settles with res: the inner try block
\* ends, by its end or by its catch, and the handler shows the panel.
ForecastSettled(res) ==
    /\ pc = "forecast"
    /\ LET done == get5DayForecastResume(res)
           tried == ForecastTry(dom, done)
           stage == IF done.kind = "throw" THEN "failed"
                    ELSE IF tried.threw THEN "threw" ELSE "ok"
       IN  /\ jsonCount' = IF done.bodyRead THEN jsonCount + 1 ELSE jsonCount
           /\ IF tried.escaped
              THEN /\ Fail(tried.dom, tried.error)
                   /\ query' = [query EXCEPT !.forecast = stage, !.errors = @ + 1,
                                             !.caught = tried.error,
                                             !.status = res.status]
              ELSE /\ dom' = FinallyBlock(ShowPanel(tried.dom))
                   /\ pc' = "idle"
                   /\ cityData' = Undefined
                   /\ weather' = Undefined
                   /\ request' = Undefined
                   /\ query' = [query EXCEPT !.forecast = stage,
                                             !.status = res.status]
    /\ UNCHANGED <<fetchCount, call, invocations>>

\* the fetch() the handler awaits settles
Settles ==
    \/ \E res \in FetchResults(GeoBodies) : GeoSettled(res)
    \/ \E res \in FetchResults(WeatherBodies), env \in Envs : WeatherSettled(res, env)
    \/ \E res \in FetchResults(ForecastBodies) : ForecastSettled(res)

\* Every fetch() the handler awaits settles eventually (with a response or
\* a rejection): the assumption under which a query terminates.
EveryFetchSettles == WF_vars(Settles)

\* ------------------------------------------------------------------
\* Direct invocations of the pipeline functions
\* ------------------------------------------------------------------

\* getCityCoordinates(cityName) is called.
CallGetCityCoordinates(cityName) ==
    /\ call.state # "pending"
    /\ fetchCount < MaxFetches
    /\ LET started == getCityCoordinatesStart(cityName)
       IN  IF IsDefined(started.done)
           THEN /\ call' = [fn |-> "getCityCoordinates", state |-> "settled",
                            cityName |-> cityName, request |-> Undefined,
                            res |-> Undefined, outcome |-> started.done,
                            fetches |-> 0]
                /\ UNCHANGED fetchCount
           ELSE /\ call' = [fn |-> "getCityCoordinates", state |-> "pending",
                            cityName |-> cityName, request |-> started.fetch,
                            res |-> Undefined, outcome |-> Undefined,
                            fetches |-> 1]
                /\ fetchCount' = fetchCount + 1
    /\ UNCHANGED <<uiVars, jsonCount, invocations>>

\* getWeatherData(lat, lon) is called.
CallGetWeatherData(lat, lon) ==
    /\ call.state # "pending"
    /\ fetchCount < MaxFetches
    /\ call' = [fn |-> "getWeatherData", state |-> "pending", cityName |-> Undefined,
                request |-> Some(WeatherRequest(lat, lon)), res |-> Undefined,
                outcome |-> Undefined, fetches |-> 1]
    /\ fetchCount' = fetchCount + 1
    /\ UNCHANGED <<uiVars, jsonCount, invocations>>

\* get5DayForecast(lat, lon) is called in the process environment env.
CallGet5DayForecast(lat, lon, env) ==
    /\ call.state # "pending"
    /\ fetchCount < MaxFetches
    /\ call' = [fn |-> "get5DayForecast", state |-> "pending", cityName |-> Undefined,
                request |-> Some(ForecastRequest(lat, lon, env)), res |-> Undefined,
                outcome |-> Undefined, fetches |-> 1, env |-> env]
    /\ fetchCount' = fetchCount + 1
    /\ UNCHANGED <<uiVars, jsonCount, invocations>>

\* the pending invocation resumes with done after its fetch settled with res
Settle(res, done) ==
    /\ call' = [call EXCEPT !.state = "settled", !.res = Some(res),
                            !.outcome = Some(done)]
    /\ jsonCount' = IF done.bodyRead THEN jsonCount + 1 ELSE jsonCount
    /\ UNCHANGED <<uiVars, fetchCount, invocations>>

\* The fetch of the pending getCityCoordinates settles with res.
GeoCallSettled(res) ==
    /\ call.state = "pending"
    /\ call.fn = "getCityCoordinates"
    /\ Settle(res, getCityCoordinatesResume(res))

\* The fetch of the pending getWeatherData settles with res.
WeatherCallSettled(res) ==
    /\ call.state = "pending"
    /\ call.fn = "getWeatherData"
    /\ Settle(res, getWeatherDataResume(res))

\* The fetch of the pending get5DayForecast settles with res.
ForecastCallSettled(res) ==
    /\ call.state = "pending"
    /\ call.fn = "get5DayForecast"
    /\ Settle(res, get5DayForecastResume(res))

NextPipeline ==
    \/ \E cityName \in CityNames : CallGetCityCoordinates(cityName)
    \/ \E c \in Coordinates : CallGetWeatherData(c[1], c[2])
    \/ \E c \in Coordinates, env \in Envs : CallGet5DayForecast(c[1], c[2], env)
    \/ \E res \in FetchResults(GeoBodies) : GeoCallSettled(res)
    \/ \E res \in FetchResults(WeatherBodies) : WeatherCallSettled(res)
    \/ \E res \in FetchResults(ForecastBodies) : ForecastCallSettled(res)

SpecPipeline == Init /\ [][NextPipeline]_vars

Next ==
    \/ \E input \in CityInputs : Submit(input)
    \/ \E res \in FetchResults(GeoBodies) : GeoSettled(res)
    \/ \E res \in FetchResults(WeatherBodies), env \in Envs : WeatherSettled(res, env)
    \/ \E res \in FetchResults(ForecastBodies) : ForecastSettled(res)
    \/ Back

Spec == Init /\ [][Next]_vars

\* the interface when every fetch settles
SpecSettling == Init /\ [][Next]_vars /\ EveryFetchSettles

\* ------------------------------------------------------------------
\* Direct calls of the translators and of formatDateTimeLocal
\* ------------------------------------------------------------------

\* the weather codes the translators are called with
CodesBelowZero == 3

MaxCode == 101

Codes == (0 - CodesBelowZero)..MaxCode

\* the strings formatDateTimeLocal is called with
IsoDates == {"2025-11-10", "1999-02-28"}

IsoTimes == {"14:30", "00:05", "14:30:45", "23:59:00", "14", "14:"}

Timestamps ==
    {Undefined, Some("")}
      \cup {Some(d \o "T" \o t) : d \in IsoDates, t \in IsoTimes}
      \cup {Some("2025-11-10T14:30T99"), Some("2025-11-10"), Some("1999-02-28"),
            Some("not-a-date")}

\* a synchronous call of fn with args has returned value
Returned(fn, args, value) ==
    /\ call' = [fn |-> fn, state |-> "returned", args |-> args, value |-> value]
    /\ UNCHANGED <<uiVars, fetchCount, jsonCount, invocations>>

CallGetWeatherDescription(code) ==
    Returned("getWeatherDescription", <<code>>, getWeatherDescription(code))

CallGetWeatherIcon(code) ==
    Returned("getWeatherIcon", <<code>>, getWeatherIcon(code))

\* formatDateTimeLocal(isoString) is called in the process environment env.
CallFormatDateTimeLocal(isoString, env) ==
    Returned("formatDateTimeLocal", <<isoString, env>>,
             formatDateTimeLocal(isoString, env))

NextTranslators ==
    \/ \E code \in Codes : CallGetWeatherDescription(code)
    \/ \E code \in Codes : CallGetWeatherIcon(code)
    \/ \E isoString \in Timestamps, env \in Envs :
          CallFormatDateTimeLocal(isoString, env)

SpecTranslators == Init /\ [][NextTranslators]_vars

\* ------------------------------------------------------------------
\* Concurrent invocations of the pipeline functions
\* ------------------------------------------------------------------

\* the calls made concurrently: the function and its arguments (for
\* get5DayForecast also the process environment it reads the clock of)
ConcurrentCalls ==
    {[fn |-> "getCityCoordinates", args |-> <<Some("S&atilde;o Paulo")>>],
     [fn |-> "getCityCoordinates", args |-> <<Some(" Lisboa ")>>],
     [fn |-> "getCityCoordinates", args |-> <<Some("   ")>>],
     [fn |-> "getWeatherData", args |-> <<-2355, -4663>>],
     [fn |-> "get5DayForecast", args |-> <<3872, -914, CHOOSE env \in Envs : env.tz = 9>>]}

\* the ways the fetch of a concurrent call of fn settles
ConcurrentResults(fn) ==
    LET bodies == CASE fn = "getCityCoordinates" ->
                         {[results |-> Some(<<>>)], [results |-> Some(<<SaoPaulo>>)],
                          [results |-> Some(<<Lisboa, SaoPaulo>>)]}
                    [] fn = "getWeatherData" ->
                         {b \in WeatherBodies :
                            IsDefined(b.current_weather)
                              => IsDefined(ValueOf(b.current_weather).temperature)}
                    [] fn = "get5DayForecast" ->
                         {b \in ForecastBodies :
                            IsDefined(b.daily) => ~IsDefined(ValueOf(b.daily).time)}
    IN  {r \in FetchResults(bodies) :
           /\ r.status # 429
           /\ r.rejected
                => (IsDefined(r.reason) /\ ValueOf(r.reason).name = "TypeError")}

\* the part of fn(args) up to its await: it throws at once, or calls fetch
StartOf(fn, args) ==
    CASE fn = "getCityCoordinates" -> getCityCoordinatesStart(args[1])
      [] fn = "getWeatherData" ->
           [fetch |-> Some(WeatherRequest(args[1], args[2])), done |-> Undefined]
      [] fn = "get5DayForecast" ->
           [fetch |-> Some(ForecastRequest(args[1], args[2], args[3])), done |-> Undefined]

\* the part of fn after its await, when its fetch has settled with res
ResumeOf(fn, res) ==
    CASE fn = "getCityCoordinates" -> getCityCoordinatesResume(res)
      [] fn = "getWeatherData" -> getWeatherDataResume(res)
      [] fn = "get5DayForecast" -> get5DayForecastResume(res)

\* The function c.fn is invoked with c.args in slot i: it runs up to its
\* await, whatever the invocation in the other slot is doing.
Invoke(i, c) ==
    /\ invocations[i].state # "pending"
    /\ fetchCount < MaxFetches
    /\ LET started == StartOf(c.fn, c.args)
       IN  /\ invocations' =
                [invocations EXCEPT ![i] =
                   [fn |-> c.fn, args |-> c.args, request |-> started.fetch,
                    res |-> Undefined, outcome |-> started.done,
                    state |-> IF IsDefined(started.done) THEN "settled" ELSE "pending"]]
           /\ fetchCount' = IF IsDefined(started.fetch) THEN fetchCount + 1 ELSE fetchCount
    /\ UNCHANGED <<uiVars, jsonCount, call>>

\* Resume with a slip: the response is kept in a variable of the module, so
\* every invocation of the function that is waiting resumes with it
Resume_SharedResponse(i, res) ==
    /\ invocations[i].state = "pending"
    /\ res \in ConcurrentResults(invocations[i].fn)
    /\ invocations' =
         [j \in Slots |->
            IF invocations[j].state = "pending" /\ invocations[j].fn = invocations[i].fn
            THEN [invocations[j] EXCEPT !.state = "settled", !.res = Some(res),
                                        !.outcome = Some(ResumeOf(invocations[j].fn, res))]
            ELSE invocations[j]]
    /\ jsonCount' = IF ResumeOf(invocations[i].fn, res).bodyRead
                    THEN jsonCount + 1 ELSE jsonCount
    /\ UNCHANGED <<uiVars, fetchCount, call>>

\* The fetch of the invocation in slot i settles with res and the
\* invocation runs to its end.
Resume(i, res) ==
    /\ invocations[i].state = "pending"
    /\ res \in ConcurrentResults(invocations[i].fn)
    /\ LET done == ResumeOf(invocations[i].fn, res)
       IN  /\ invocations' =
                [invocations EXCEPT ![i].state = "settled", ![i].res = Some(res),
                                    ![i].outcome = Some(done)]
           /\ jsonCount' = IF done.bodyRead THEN jsonCount + 1 ELSE jsonCount
    /\ UNCHANGED <<uiVars, fetchCount, call>>

AllConcurrentResults ==
    UNION {ConcurrentResults(fn) :
             fn \in {"getCityCoordinates", "getWeatherData", "get5DayForecast"}}

NextConcurrent ==
    \/ \E i \in Slots, c \in ConcurrentCalls : Invoke(i, c)
    \/ \E i \in Slots, res \in AllConcurrentResults : Resume(i, res)

SpecConcurrent == Init /\ [][NextConcurrent]_vars

\* ------------------------------------------------------------------
\* Properties of the pipeline functions (checked under SpecPipeline)
\* ------------------------------------------------------------------

\* s is empty or made of white space only
IsBlank(s) == \A i \in 1..Len(s) : CharAt(s, i) \in {" ", "\t", "\n"}

\* the direct invocation of fn has ended after its fetch gave a response
RespondedTo(fn) ==
    /\ call.fn = fn
    /\ call.state = "settled"
    /\ IsDefined(call.res)
    /\ ~ValueOf(call.res).rejected

\* C1: a call of getCityCoordinates with an empty or all-whitespace name
\* ends at once by throwing 'Nome da cidade é obrigatório', and the step
\* that makes the call leaves the number of fetch() calls unchanged.
C1_BlankNameThrowsWithoutFetch ==
    [][(/\ call' # call
        /\ call'.fn = "getCityCoordinates"
        /\ call'.state # call.state \/ call'.cityName # call.cityName
        /\ call.state # "pending"
        /\ IsDefined(call'.cityName)
        /\ IsBlank(ValueOf(call'.cityName)))
       => (/\ call'.state = "settled"
           /\ call'.outcome =
                Some(Throw(NewError("Nome da cidade &eacute; obrigat&oacute;rio"), FALSE))
           /\ call'.request = Undefined
           /\ fetchCount' = fetchCount)]_vars

\* C1 witness: an all-whitespace call has ended after earlier calls fetched
C1_Witness ==
    /\ call.fn = "getCityCoordinates"
    /\ call.cityName = Some("   ")
    /\ call.state = "settled"
    /\ ValueOf(call.outcome).kind = "throw"
    /\ fetchCount > 0

\* C2: when the geocoding response has a success status and its results
\* are an empty array or missing, getCityCoordinates throws
\* 'Cidade não encontrada' and returns no location.
C2_NoMatchThrowsNotFound ==
    (/\ RespondedTo("getCityCoordinates")
     /\ ValueOf(call.res).status \in 200..299
     /\ LET results == ValueOf(ValueOf(call.res).body).results
        IN  ~IsDefined(results) \/ Len(ValueOf(results)) = 0)
    => (/\ ValueOf(call.outcome).kind = "throw"
        /\ ValueOf(call.outcome).error = NewError("Cidade n&atilde;o encontrada")
        /\ ~IsDefined(ValueOf(call.outcome).value))

\* C2 witness: a call for a non-empty name got status 200 with results: []
C2_Witness ==
    /\ RespondedTo("getCityCoordinates")
    /\ ~IsBlank(ValueOf(call.cityName))
    /\ ValueOf(call.res).status = 200
    /\ ValueOf(ValueOf(call.res).body).results = Some(<<>>)
    /\ ValueOf(call.outcome).kind = "throw"

\* the fixed text each function throws for a non-success status
UpstreamText(fn) ==
    CASE fn = "getCityCoordinates" -> "Erro ao buscar coordenadas da cidade"
      [] fn = "getWeatherData" -> "Erro ao buscar dados do clima"
      [] fn = "get5DayForecast" -> "Erro ao buscar previs&atilde;o de 5 dias"

\* C3: for every non-2xx status, each of the three functions throws its own
\* fixed message, the same whatever the status and the body, and does not
\* read the response body.
C3_NonSuccessThrowsFixedText ==
    (/\ call.state = "settled"
     /\ IsDefined(call.res)
     /\ ~ValueOf(call.res).rejected
     /\ ValueOf(call.res).status \notin 200..299)
    => (/\ ValueOf(call.outcome).kind = "throw"
        /\ ValueOf(call.outcome).error = NewError(UpstreamText(call.fn))
        /\ ~ValueOf(call.outcome).bodyRead)

\* C3 witness: getCityCoordinates has ended on a 429 response
C3_Witness ==
    /\ RespondedTo("getCityCoordinates")
    /\ ValueOf(call.res).status = 429
    /\ ValueOf(call.outcome).kind = "throw"
    /\ jsonCount = 0

\* C4: when fetch() is rejected, each of the three functions throws the very
\* value fetch was rejected with.
C4_RejectionPropagates ==
    (/\ call.state = "settled"
     /\ IsDefined(call.res)
     /\ ValueOf(call.res).rejected)
    => (/\ ValueOf(call.outcome).kind = "throw"
        /\ ValueOf(call.outcome).error = ValueOf(call.res).reason
        /\ ~IsDefined(ValueOf(call.outcome).value))

\* C4 witness: get5DayForecast has ended on a rejected fetch
C4_Witness ==
    /\ call.fn = "get5DayForecast"
    /\ call.state = "settled"
    /\ IsDefined(call.res)
    /\ ValueOf(call.res).rejected
    /\ ValueOf(call.res).reason =
         Some([name |-> "TypeError", message |-> Some("Network request failed")])
    /\ ValueOf(call.outcome).kind = "throw"

\* the field of the response body a forecast-endpoint function returns
ExpectedField(fn) ==
    IF fn = "getWeatherData"
    THEN ValueOf(ValueOf(call.res).body).current_weather
    ELSE ValueOf(ValueOf(call.res).body).daily

\* C5: on a success status getWeatherData and get5DayForecast return, and
\* do not throw: null when current_weather (daily) is missing from the
\* body, the field's record unchanged when it is there.
C5_MissingFieldReturnsNull ==
    \A fn \in {"getWeatherData", "get5DayForecast"} :
        (RespondedTo(fn) /\ ValueOf(call.res).status \in 200..299)
        => (/\ ValueOf(call.outcome).kind = "return"
            /\ ValueOf(call.outcome).value = ExpectedField(fn)
            /\ ~IsDefined(ValueOf(call.outcome).error))

\* C5 witness: getWeatherData returned null for a body without the field
C5_Witness ==
    /\ RespondedTo("getWeatherData")
    /\ ValueOf(call.res).status = 200
    /\ ~IsDefined(ValueOf(ValueOf(call.res).body).current_weather)
    /\ ValueOf(call.outcome).kind = "return"
    /\ ~IsDefined(ValueOf(call.outcome).value)

\* ------------------------------------------------------------------
\* Properties of the submit handler (checked under Spec)
\* ------------------------------------------------------------------

\* the current-weather fields the document shows
CurrentOf(d) ==
    [cityName |-> d.cityName, temperature |-> d.temperature,
     description |-> d.description, datetime |-> d.datetime,
     weatherIcon |-> d.weatherIcon]

\* C6: when getCityCoordinates or getWeatherData fails, no later stage of
\* the query is started (no weather request after a resolver failure, no
\* forecast request after a weather failure), the query is over with no
\* request in flight, the weather panel is hidden and exactly one error
\* message has been displayed.
C6_FailureShortCircuits ==
    /\ query.geo = "failed" => (query.weather = "none" /\ query.forecast = "none")
    /\ query.weather = "failed" => query.forecast = "none"
    /\ (query.geo = "failed" \/ query.weather = "failed")
       => (/\ pc = "idle"
           /\ request = Undefined
           /\ dom.weatherInfo = "none"
           /\ dom.error = "block"
           /\ dom.loading = "none"
           /\ query.errors = 1)

\* C6 witness: a query has ended by a failure of getWeatherData
C6_Witness ==
    /\ query.geo = "ok"
    /\ query.weather = "failed"
    /\ pc = "idle"
    /\ dom.error = "block"
    /\ fetchCount = 2

\* C7: when the forecast stage fails (get5DayForecast throws, or the
\* rendering of daily throws), the step that ends it ends the query with
\* the weather panel displayed, no error message displayed or counted, and
\* the current-weather fields as the handler computed them from its
\* cityData and weather.
C7_ForecastFailureKeepsCurrentWeather ==
    [][(/\ pc = "forecast"
        /\ pc' # "forecast"
        /\ query'.forecast \in {"failed", "threw"})
       => (/\ pc' = "idle"
           /\ dom'.weatherInfo = "block"
           /\ dom'.error = "none"
           /\ dom'.loading = "none"
           /\ query'.errors = 0
           /\ \E env \in Envs :
                CurrentOf(dom') =
                  CurrentFields(ValueOf(cityData), ValueOf(weather), env))]_vars

\* C7 witness: the panel shows São Paulo's observation after the forecast
\* fetch failed
C7_Witness ==
    /\ pc = "idle"
    /\ query.forecast = "failed"
    /\ dom.weatherInfo = "block"
    /\ dom.error = "none"
    /\ dom.cityName = "S&atilde;o Paulo, Brazil"
    /\ dom.temperature = "25&deg;C"
    /\ dom.description = Some("Chuva moderada")
    /\ dom.weatherIcon = Some("wi weather-icon wi-rain")
    /\ dom.datetime = Some("10/11/2025 15:00")

\* C8 (the claim as stated): when the panel is displayed by a query whose
\* forecast fetch failed, the #forecast5 element is absent or empty.
C8_NoForecastAfterFailedFetch ==
    (/\ pc = "idle"
     /\ query.forecast = "failed"
     /\ dom.weatherInfo = "block")
    => (~IsDefined(dom.forecast5) \/ ValueOf(dom.forecast5) = EmptyForecast)

\* m mentions 'cidade' in any mix of upper and lower case
MentionsCidade(m) ==
    \E i \in 1..(Len(m) - 5) :
        \A k \in 1..6 : CharAt(m, i + k - 1) \in {CharAt("cidade", k), CharAt("CIDADE", k)}

C10_GeoUpstreamShownVerbatim ==
    (/\ pc = "idle"
     /\ query.geo = "failed"
     /\ query.status # 0
     /\ query.status \notin 200..299)
    => (/\ dom.errorText = "Erro ao buscar coordenadas da cidade"
        /\ dom.errorText # "Cidade n&atilde;o encontrada. Tente novamente.")

\* C11 (the claim as stated): when the handler has caught a failure that
\* has no message (the thrown value is undefined, or its message is absent
\* or empty), the error element shows the fallback text
\* 'Erro ao buscar dados do clima. Tente novamente.'.
C11_NoMessageShowsFallback ==
    (/\ query.errors > 0
     /\ \/ ~IsDefined(query.caught)
        \/ ~IsDefined(ValueOf(query.caught).message)
        \/ Len(ValueOf(ValueOf(query.caught).message)) = 0)
    => (/\ dom.error = "block"
        /\ dom.errorText = "Erro ao buscar dados do clima. Tente novamente."
        /\ dom.errorText # "Cidade n&atilde;o encontrada. Tente novamente.")

\* C12 (the claim as stated): the step that displays the weather panel is
\* taken only for an observation that has both its temperature and its
\* weather code.
C12_PanelOnlyForCompleteObservation ==
    [][(dom.weatherInfo # "block" /\ dom'.weatherInfo = "block")
       => (/\ IsDefined(weather)
           /\ IsDefined(ValueOf(weather).temperature)
           /\ IsDefined(ValueOf(weather).weathercode))]_vars

\* ------------------------------------------------------------------
\* Properties of the translators (checked under SpecTranslators)
\* ------------------------------------------------------------------

\* the 24 weather codes that have a description
KnownCodes ==
    {0, 1, 2, 3, 45, 48, 51, 53, 55, 61, 63, 65, 71, 73, 75, 77,
     80, 81, 82, 85, 86, 95, 96, 99}

\* C13: every call of getWeatherDescription with an integer returns a
\* non-empty string; it is 'Condição desconhecida' exactly when the code is
\* not one of the 24 known codes (negative codes and codes above 99
\* included), and a known code gets the entry the table has for it.
C13_DescriptionTotalWithFallback ==
    call.fn = "getWeatherDescription"
    => LET code == call.args[1]
           text == call.value
       IN  /\ Cardinality(KnownCodes) = 24
           /\ Len(text) > 0
           /\ (code \in KnownCodes) <=> (text # "Condi&ccedil;&atilde;o desconhecida")
           /\ code \in KnownCodes => text = DescriptionMap[code]
           /\ code = 0 => text = "C&eacute;u limpo"
           /\ code = 63 => text = "Chuva moderada"
           /\ code = 99 => text = "Tempestade com granizo forte"

\* C13 witness: code 0 has returned its own description
C13_Witness ==
    /\ call.fn = "getWeatherDescription"
    /\ call.args = <<0>>
    /\ call.value = "C&eacute;u limpo"

\* the groups of weather codes and the icon token of each
IconGroups ==
    <<[codes |-> {0, 1}, token |-> "wi-day-sunny"],
      [codes |-> {2}, token |-> "wi-day-cloudy"],
      [codes |-> {3}, token |-> "wi-cloud"],
      [codes |-> {45, 48}, token |-> "wi-fog"],
      [codes |-> {51, 53, 55, 61, 63, 65, 80, 81, 82}, token |-> "wi-rain"],
      [codes |-> {71, 73, 75, 85, 86}, token |-> "wi-snow"],
      [codes |-> {77}, token |-> "wi-hail"],
      [codes |-> {95, 96, 99}, token |-> "wi-thunderstorm"]>>

\* C14: every call of getWeatherIcon with an integer returns the token of
\* the group the code is in, and 'wi-na' when it is in no group; the groups
\* are pairwise disjoint.
C14_IconOfGroup ==
    call.fn = "getWeatherIcon"
    => LET code == call.args[1]
           token == call.value
       IN  /\ \A g \in 1..Len(IconGroups), h \in 1..Len(IconGroups) :
                 g # h => IconGroups[g].codes \cap IconGroups[h].codes = {}
           /\ \A g \in 1..Len(IconGroups) :
                 code \in IconGroups[g].codes => token = IconGroups[g].token
           /\ (\A g \in 1..Len(IconGroups) : code \notin IconGroups[g].codes)
                 => token = "wi-na"

\* C14 witness: code 77 has returned the hail token
C14_Witness ==
    /\ call.fn = "getWeatherIcon"
    /\ call.args = <<77>>
    /\ call.value = "wi-hail"

\* s is d digits at position i
DigitsAt(s, i, d) == \A k \in i..(i + d - 1) : IsDigit(CharAt(s, k))

\* s has the form YYYY-MM-DDTHH
IsIsoDateHour(s) ==
    /\ Len(s) >= 13
    /\ DigitsAt(s, 1, 4) /\ CharAt(s, 5) = "-"
    /\ DigitsAt(s, 6, 2) /\ CharAt(s, 8) = "-"
    /\ DigitsAt(s, 9, 2) /\ CharAt(s, 11) = "T"
    /\ DigitsAt(s, 12, 2)

\* s has the form YYYY-MM-DDTHH:MM or YYYY-MM-DDTHH:MM:SS
IsIsoDateTime(s) ==
    /\ IsIsoDateHour(s)
    /\ \/ Len(s) = 16
       \/ Len(s) = 19 /\ CharAt(s, 17) = ":" /\ DigitsAt(s, 18, 2)
    /\ CharAt(s, 14) = ":"
    /\ DigitsAt(s, 15, 2)

\* C15: for an input YYYY-MM-DDTHH:MM or YYYY-MM-DDTHH:MM:SS
\* formatDateTimeLocal returns 'DD/MM/YYYY HH:MM' (seconds dropped); for
\* YYYY-MM-DDTHH and YYYY-MM-DDTHH: (no minute component) the minute is '00'.
C15_IsoReformatted ==
    (call.fn = "formatDateTimeLocal" /\ IsDefined(call.args[1]))
    => LET s == ValueOf(call.args[1])
           date == SubSeq(s, 9, 10) \o "/" \o SubSeq(s, 6, 7) \o "/" \o SubSeq(s, 1, 4)
       IN  /\ IsIsoDateTime(s)
                => call.value = date \o " " \o SubSeq(s, 12, 13) \o ":" \o SubSeq(s, 15, 16)
           /\ (IsIsoDateHour(s) /\ (Len(s) = 13 \/ (Len(s) = 14 /\ CharAt(s, 14) = ":")))
                => call.value = date \o " " \o SubSeq(s, 12, 13) \o ":00"

\* C15 witness: an input with seconds has been reformatted
C15_Witness ==
    /\ call.fn = "formatDateTimeLocal"
    /\ call.args[1] = Some("2025-11-10T14:30:45")
    /\ call.value = "10/11/2025 14:30"

\* the number of 'T' separators in s
CountSeparators(s) == Cardinality({i \in 1..Len(s) : CharAt(s, i) = "T"})

\* C16 (the claim as stated): a non-empty input that does not split on 'T'
\* into exactly two parts gets the result of the generic parse: the pt-BR
\* locale string of the parsed date, or what an input that does not parse
\* gives.
C16_ReformatOnlyForTwoParts ==
    (/\ call.fn = "formatDateTimeLocal"
     /\ IsDefined(call.args[1])
     /\ Len(ValueOf(call.args[1])) > 0
     /\ CountSeparators(ValueOf(call.args[1])) # 1)
    => LET s == ValueOf(call.args[1])
           env == call.args[2]
           parsed == DateParse(s, env.tz)
       IN  IF IsDefined(parsed)
           THEN call.value = ToLocaleStringPtBR(ValueOf(parsed), env.sep)
           ELSE call.value \in {s, "Invalid Date"}

\* C17 (the claim as stated): a non-empty input without 'T' that the
\* generic parse cannot interpret is returned unchanged.
C17_UnparseableReturnedUnchanged ==
    (/\ call.fn = "formatDateTimeLocal"
     /\ IsDefined(call.args[1])
     /\ Len(ValueOf(call.args[1])) > 0
     /\ CountSeparators(ValueOf(call.args[1])) = 0
     /\ ~IsDefined(DateParse(ValueOf(call.args[1]), call.args[2].tz)))
    => call.value = ValueOf(call.args[1])

\* ------------------------------------------------------------------
\* The forecast window (checked under SpecPipeline)
\* ------------------------------------------------------------------

\* the value of the parameter name in the query string q
Param(q, name) == q[CHOOSE i \in 1..Len(q) : q[i][1] = name][2]

\* the calendar date of d as YYYY-MM-DD
DateText(d) == ToString(d.year) \o "-" \o Pad2(d.month) \o "-" \o Pad2(d.day)

\* C18 (the claim as stated): the request of get5DayForecast has as
\* start_date the date of the process's local clock at the call and as
\* end_date the day four calendar days after it.
C18_WindowStartsAtLocalDate ==
    call.fn = "get5DayForecast"
    => LET q == ValueOf(call.request).query
       IN  /\ Param(q, "start_date") = DateText(call.env.now)
           /\ Param(q, "end_date") = DateText(AddDays(call.env.now, 4))

\* ------------------------------------------------------------------
\* One query at a time (checked under Spec)
\* ------------------------------------------------------------------

\* the search button is disabled exactly while a query is in flight
ButtonTracksQuery == (pc # "idle") <=> dom.searchBtnDisabled

\* C19: the search button is disabled from the start of a query until the
\* query has completed or failed and is enabled again when it has; a step
\* that starts a query (the handler issues its geocoding request) is taken
\* only while no query is in flight.
C19_OneQueryInFlight ==
    [][/\ ButtonTracksQuery
       /\ ButtonTracksQuery'
       /\ (pc' = "geo" /\ fetchCount' > fetchCount) => pc = "idle"
       /\ (pc # "idle" /\ pc' = "idle") => ~dom'.searchBtnDisabled]_vars

\* C19 witness: the form is displayed and a query waits for its weather
\* response with the button disabled
C19_Witness ==
    /\ pc = "weather"
    /\ dom.searchForm = "flex"
    /\ dom.searchBtnDisabled
    /\ IsDefined(request)

\* ------------------------------------------------------------------
\* Re-entrancy (checked under SpecConcurrent)
\* ------------------------------------------------------------------

\* what the invocation inv gives when it runs alone: its request, and its
\* outcome once its fetch has settled with the response it has received
AloneRequest(inv) ==
    CASE inv.fn = "getCityCoordinates" ->
           IF NameIsMissing(inv.args[1]) THEN Undefined ELSE Some(GeoRequest(inv.args[1]))
      [] inv.fn = "getWeatherData" -> Some(WeatherRequest(inv.args[1], inv.args[2]))
      [] inv.fn = "get5DayForecast" ->
           Some(ForecastRequest(inv.args[1], inv.args[2], inv.args[3]))

AloneOutcome(inv) ==
    IF ~IsDefined(inv.res)
    THEN Some(Throw(NewError("Nome da cidade &eacute; obrigat&oacute;rio"), FALSE))
    ELSE CASE inv.fn = "getCityCoordinates" ->
                Some(getCityCoordinatesResume(ValueOf(inv.res)))
           [] inv.fn = "getWeatherData" -> Some(getWeatherDataResume(ValueOf(inv.res)))
           [] inv.fn = "get5DayForecast" -> Some(get5DayForecastResume(ValueOf(inv.res)))

NearestInteger(tenths) ==
    CHOOSE n \in -1000..1000 : 10 * n - 5 <= tenths /\ tenths < 10 * n + 5

C22_AbsentObservationAborts ==
    [][(pc = "weather" /\ query'.weather = "absent")
       => (/\ IsDefined(cityData)
           /\ pc' = "idle"
           /\ dom'.error = "block"
           /\ dom'.errorText = "Dados de clima indispon&iacute;veis"
           /\ query'.caught = NewError("Dados de clima indispon&iacute;veis")
           /\ query'.errors = 1
           /\ dom'.weatherInfo = "none"
           /\ dom'.loading = "none"
           /\ query'.forecast = "none"
           /\ query'.issued = <<"geo", "weather">>
           /\ request' = Undefined
           /\ fetchCount' = fetchCount
           /\ CurrentOf(dom') = CurrentOf(dom))]_vars

\* C22 witness: a query has ended because the weather response of a
\* resolved city had no current_weather
C22_Witness ==
    /\ pc = "idle"
    /\ query.geo = "ok"
    /\ query.weather = "absent"
    /\ query.status = 200
    /\ ~IsDefined(query.observation)
    /\ dom.errorText = "Dados de clima indispon&iacute;veis"
    /\ dom.weatherInfo = "none"

\* the request in flight is for url and carries the coordinates of city
RequestFor(url, city) ==
    /\ IsDefined(request)
    /\ ValueOf(request).url = url
    /\ Param(ValueOf(request).query, "latitude") = CoordText(city.latitude)
    /\ Param(ValueOf(request).query, "longitude") = CoordText(city.longitude)

\* the queries of the request in flight name the parameter name
HasParam(name) ==
    \E i \in 1..Len(ValueOf(request).query) : ValueOf(request).query[i][1] = name

\* C23: the requests of a query are issued in the order geocoding, weather,
\* forecast and one at a time: the weather request is in flight only after
\* the resolver returned a match and carries that match's latitude and
\* longitude; the forecast request is in flight only after getWeatherData
\* returned an observation and carries the same coordinates; whenever a
\* request is in flight it is the only one of its query.
C23_RequestsInOrder ==
    /\ (pc = "idle") <=> ~IsDefined(request)
    /\ \A k \in 1..Len(query.issued) : query.issued[k] = <<"geo", "weather", "forecast">>[k]
    /\ pc = "geo"
         => (/\ query.geo = "pending" /\ query.weather = "none" /\ query.forecast = "none"
             /\ query.issued = <<"geo">>
             /\ ValueOf(request).url = "https://geocoding-api.open-meteo.com/v1/search")
    /\ pc = "weather"
         => (/\ query.geo = "ok" /\ query.weather = "pending" /\ query.forecast = "none"
             /\ query.issued = <<"geo", "weather">>
             /\ IsDefined(query.first)
             /\ RequestFor("https://api.open-meteo.com/v1/forecast", ValueOf(query.first))
             /\ HasParam("current_weather"))
    /\ pc = "forecast"
         => (/\ query.geo = "ok" /\ query.weather = "ok" /\ query.forecast = "pending"
             /\ query.issued = <<"geo", "weather", "forecast">>
             /\ IsDefined(query.observation)
             /\ RequestFor("https://api.open-meteo.com/v1/forecast", ValueOf(query.first))
             /\ HasParam("daily"))
    /\ pc = "idle"
         => "pending" \notin {query.geo, query.weather, query.forecast}

\* C23 witness: the forecast request for Lisboa's coordinates is in flight
C23_Witness ==
    /\ pc = "forecast"
    /\ query.first = Some(Lisboa)
    /\ IsDefined(query.observation)
    /\ Param(ValueOf(request).query, "latitude") = "38.72"
    /\ Param(ValueOf(request).query, "longitude") = "-9.14"
    /\ HasParam("start_date")

\* C24: every step calls fetch() at most once, and exactly for the
\* requests the query records as issued; a query issues each of its three
\* requests at most once, and the step at which a request settles, however
\* it settles, leaves that request's stage for good (the request is not
\* issued again).
C24_NoRetry ==
    [][/\ fetchCount' - fetchCount =
            IF pc = "idle" /\ pc' = "geo" THEN Len(query'.issued)
            ELSE Len(query'.issued) - Len(query.issued)
       /\ fetchCount' - fetchCount \in {0, 1}
       /\ Len(query'.issued) <= 3
       /\ \A k \in 1..Len(query'.issued), l \in 1..Len(query'.issued) :
            k # l => query'.issued[k] # query'.issued[l]
       /\ (pc # "idle" /\ query' # query)
            => (/\ pc' # pc
                /\ pc' \in {"idle",
                            IF pc = "geo" THEN "weather" ELSE "forecast"}
                /\ pc = "forecast" => pc' = "idle")]_vars

\* C24 witness: a query has issued its three requests, the last of which
\* failed, and has ended
C24_Witness ==
    /\ pc = "idle"
    /\ query.issued = <<"geo", "weather", "forecast">>
    /\ query.forecast = "failed"
    /\ fetchCount = 3
    /\ ~IsDefined(request)

\* ------------------------------------------------------------------
\* Termination of a query (checked under SpecSettling)
\* ------------------------------------------------------------------

\* a query has ended: exactly one of panel and error message is displayed,
\* the loading indicator is hidden and the button is enabled
Terminated ==
    /\ pc = "idle"
    /\ (dom.weatherInfo = "block") # (dom.error = "block")
    /\ dom.loading = "none"
    /\ ~dom.searchBtnDisabled

\* C25: when every fetch settles, every started query leads to a state in
\* which it has ended with either the panel or the error message
\* displayed, the loading indicator hidden and the button enabled; and as
\* long as the request in flight has not settled, the query stays at its
\* stage with the button disabled.
C25_QueryTerminates ==
    /\ [](pc # "idle" => <>Terminated)
    /\ [][(pc # "idle" /\ request' = request)
          => (pc' = pc /\ dom'.searchBtnDisabled /\ dom'.loading = "block")]_vars

\* C25 witness: a query has ended with the error message displayed
C25_Witness ==
    /\ Terminated
    /\ dom.error = "block"
    /\ query.weather = "failed"
    /\ query.issued = <<"geo", "weather">>

\* ------------------------------------------------------------------
\* The elements of the interface (checked under Spec)
\* ------------------------------------------------------------------

\* C26: the loading indicator is displayed exactly while a query is in
\* flight, which is exactly while the search button is disabled, and it is
\* hidden whenever the weather panel or the error message is displayed.
C26_LoadingOnlyInFlight ==
    /\ (dom.loading = "block") <=> (pc # "idle")
    /\ (dom.loading = "block") <=> dom.searchBtnDisabled
    /\ dom.loading \in {"block", "none"}
    /\ (dom.weatherInfo = "block" \/ dom.error = "block") => dom.loading = "none"

\* C26 witness: a query waits for its forecast with the loading indicator
\* displayed
C26_Witness ==
    /\ pc = "forecast"
    /\ dom.loading = "block"
    /\ dom.searchBtnDisabled
    /\ dom.weatherInfo = "none"
    /\ dom.error = "none"

\* the weather panel is displayed neither with the error message nor with
\* the search form
PanelAlone(d) ==
    d.weatherInfo = "block" => (d.error = "none" /\ d.searchForm = "none")

\* C27: in every state the weather panel is displayed neither together
\* with the error message nor together with the search form; the start of
\* a query hides panel and error, its success shows the panel and hides the
\* form, its failure shows the error and not the panel, and a click on the
\* back button shows the form and hides the panel and the error.
C27_PanelExcludesErrorAndForm ==
    [][/\ PanelAlone(dom) /\ PanelAlone(dom')
       /\ (pc = "idle" /\ pc' = "geo")
            => (dom'.weatherInfo = "none" /\ dom'.error = "none")
       /\ query'.errors > query.errors
            => (dom'.error = "block" /\ dom'.weatherInfo = "none")
       /\ (pc = "forecast" /\ pc' = "idle" /\ query'.errors = 0)
            => (dom'.weatherInfo = "block" /\ dom'.searchForm = "none"
                /\ dom'.error = "none")
       /\ (pc = "idle" /\ pc' = "idle" /\ dom.weatherInfo = "block"
           /\ dom'.weatherInfo # "block")
            => (dom'.searchForm = "flex" /\ dom'.weatherInfo = "none"
                /\ dom'.error = "none")]_vars

\* C27 witness: after a successful query and a click on the back button a
\* query has failed: the form and the error are displayed, the panel is not
C27_Witness ==
    /\ pc = "idle"
    /\ fetchCount > 3
    /\ query.errors = 1
    /\ dom.searchForm = "flex"
    /\ dom.error = "block"
    /\ dom.weatherInfo = "none"
    /\ dom.cityName # ""

\* the step is a submit of blank input: the form is displayed with its
\* button enabled and the city field takes a new, blank value (the back
\* button, which also empties the field, works only while the form is
\* hidden)
BlankSubmit ==
    /\ dom.searchForm = "flex"
    /\ ~dom.searchBtnDisabled
    /\ dom'.cityInput # dom.cityInput
    /\ IsBlank(dom'.cityInput)

\* C28: a submit of empty or white-space input issues no request and
\* leaves the display of the loading indicator, of the error message, of
\* the weather panel and of the search form, the state of the button and
\* every displayed weather field as they were: nothing but the text of the
\* city field differs after the step.
C28_BlankSubmitChangesNothing ==
    [][BlankSubmit
       => (/\ fetchCount' = fetchCount
           /\ request' = request
           /\ pc' = pc
           /\ query' = query
           /\ dom'.loading = dom.loading
           /\ dom'.error = dom.error
           /\ dom'.errorText = dom.errorText
           /\ dom'.weatherInfo = dom.weatherInfo
           /\ dom'.searchForm = dom.searchForm
           /\ dom'.searchBtnDisabled = dom.searchBtnDisabled
           /\ CurrentOf(dom') = CurrentOf(dom)
           /\ dom'.forecast5 = dom.forecast5
           /\ dom' = [dom EXCEPT !.cityInput = dom'.cityInput])]_vars

\* C28 witness: white space was submitted after a query had failed; the
\* error of that query is still displayed and no query runs
C28_Witness ==
    /\ dom.cityInput = "   "
    /\ pc = "idle"
    /\ request = Undefined
    /\ query.errors = 1
    /\ dom.error = "block"
    /\ dom.searchForm = "flex"
    /\ ~dom.searchBtnDisabled
    /\ dom.loading = "none"

\* C29: whenever the weather panel is displayed, the last query that was
\* started has succeeded and each current-weather field (city and country,
\* temperature, description, icon, timestamp) is the one computed from the
\* first match and the observation of that query; no field is left from an
\* earlier query or from a failed one.
C29_PanelShowsLatestSuccess ==
    dom.weatherInfo = "block"
    => /\ pc = "idle"
       /\ query.geo = "ok"
       /\ query.weather = "ok"
       /\ query.errors = 0
       /\ IsDefined(query.first)
       /\ IsDefined(query.observation)
       /\ \E env \in Envs :
            CurrentOf(dom) = CurrentFields(ValueOf(query.first),
                                           ValueOf(query.observation), env)

\* C29 witness: the panel is displayed for a query that succeeded after an
\* earlier query had failed at its current-weather request
C29_Witness ==
    /\ dom.weatherInfo = "block"
    /\ fetchCount = 5
    /\ jsonCount >= 3
    /\ query.first = Some(SaoPaulo)
    /\ dom.cityName = "S&atilde;o Paulo, Brazil"

\* ------------------------------------------------------------------
\* The two translators cover the same codes (checked under
\* SpecTranslators)
\* ------------------------------------------------------------------

\* C30: for every integer code, getWeatherDescription returns the fallback
\* description if and only if getWeatherIcon returns 'wi-na': the value a
\* call of one translator has returned is its fallback exactly when the
\* other translator gives its fallback for the same code.
C30_SameCodesCovered ==
    /\ call.fn = "getWeatherDescription"
         => ((call.value = UnknownDescription)
             <=> (getWeatherIcon(call.args[1]) = "wi-na"))
    /\ call.fn = "getWeatherIcon"
         => ((call.value = "wi-na")
             <=> (getWeatherDescription(call.args[1]) = UnknownDescription))

\* C30 witness: getWeatherIcon has returned 'wi-hail' for code 77, the one
\* code with an icon of its own, which also has a description
C30_Witness ==
    /\ call.fn = "getWeatherIcon"
    /\ call.args = <<77>>
    /\ call.value = "wi-hail"
    /\ getWeatherDescription(77) = "Granizo"

====
